---- MODULE Spec2Model ----
(***************************************************************************)
(* RegistryClients (python): the Role handle of leader_election.py, its    *)
(* background renewal thread (_maintain_role), and the part of the         *)
(* Registry Service the handle talks to through registry_client.py; and    *)
(* the machines of samples/manager_workers.py: the Manager and its         *)
(* ProblemState, the Workers, and the UDP datagrams between them.          *)
(*                                                                         *)
(* Time: `now` counts whole seconds (every sleep of the code is a whole    *)
(* number of seconds).  Timestamps held by a handle are in milliseconds,   *)
(* as in the code.  A sleeping thread wakes at or after its wake time.     *)
(***************************************************************************)
EXTENDS Integers, FiniteSets, Sequences, TLC

\* ------------------------------------------------------------------ bounds
\* The clock stops at MaxTime seconds.
MaxTime == 4
\* playtime_secs of every handle (an argument of Role.__init__).
PlayTimeSecs == 3
\* Renewal threads of one handle that can exist at the same time.
MaxThreads == 2
\* The store may return a client expiration up to this many ms before its own.
MaxSkewMs == 1
\* take() and release() calls made in all when more than one handle exists.
MaxCalls == 3

\* --------------------------------------------------------------- constants
\* max_players of the role (the manager role: one player).
MaxPlayers == 1
\* num_retries of _maintain_role.
NumRetries == 1

\* Handles with distinct names playing the same role.
Handles == {"h1", "h2"}
Threads == 1..MaxThreads

\* The attributes Role.__init__ sets on a handle; a Role has no others.
RoleAttributes ==
    {"name", "client", "role_path", "max_players", "playtime_secs",
     "expiration_time_msecs", "_lock", "_to_maintain_role", "_maintenance_thread"}
\* The attribute take() passes as player_name.
TakePlayerAttr == "name"
\* The attribute _maintain_role passes as player_name.
RenewPlayerAttr == "instance_name"

VARIABLES
    roles,      \* the Role handles that have been constructed
    ncalls,     \* take()/release() calls counted against MaxCalls
    now,        \* time.time(), in whole seconds
    storeExp,   \* store: holder -> expiration (seconds) of its slot, 0 = not a holder
    exp,        \* Role.expiration_time_msecs
    maintain,   \* Role._to_maintain_role
    mthread,    \* Role._maintenance_thread: 0 = None, else the thread
    lock,       \* Role._lock: 0 = free, a thread, or MainOwner
    call,       \* the caller's last call: "none", "take", "release" (running), or "<call>:<outcome>"
    tpc,        \* renewal thread: "none", "sleep", "wantlock", "inner", "retrysleep", "done"
    wake,       \* renewal thread: end of its current sleep (seconds), 0 when not asleep
    retry,      \* renewal thread: retry_remaining
    caught,     \* renewal thread: the exception its handler caught, "none" outside the handler
    obs         \* the last is_holding() call: its inputs and its answer

vars == <<roles, ncalls, now, storeExp, exp, maintain, mthread, lock, call, tpc, wake, retry, caught, obs>>

MainOwner == MaxThreads + 1

\* retake_interval = playtime_secs - 1 - num_retries
RetakeInterval == PlayTimeSecs - 1 - NumRetries

\* ------------------------------------------------------------- the store
\* Holders whose slot is unexpired at the store.
StoreActive == {g \in Handles : storeExp[g] > now}

\* The store grants a take-role when the player already holds a slot (renewal,
\* HTTP 200) or a slot is free (HTTP 201); otherwise it answers 409 Conflict.
StoreAdmits(h) == h \in StoreActive \/ Cardinality(StoreActive) < MaxPlayers

\* RegistryClient.take_role: what the call can do.  "ok": the store granted the
\* slot and returned client_expiration_time_in_msecs = cexp.  "RegistryError":
\* a status other than 200/201 (409 role full, 500, 503, ...).  "OtherError":
\* an exception that is no RegistryError (requests.put failing, a 200 answer
\* without a JSON body or without the x-dk-org-time header).
TakeRoleResults(h) ==
    {[kind |-> "ok", code |-> 200,
      store |-> [storeExp EXCEPT ![h] = now + PlayTimeSecs],
      cexp |-> 1000 * (now + PlayTimeSecs) - d] : d \in
         IF StoreAdmits(h) THEN 0..MaxSkewMs ELSE {}}
    \cup {[kind |-> "RegistryError", code |-> 409, store |-> storeExp, cexp |-> 0] : x \in
         IF StoreAdmits(h) THEN {} ELSE {0}}
    \cup {[kind |-> "RegistryError", code |-> 500, store |-> storeExp, cexp |-> 0],
          [kind |-> "OtherError", code |-> 0, store |-> storeExp, cexp |-> 0]}

\* RegistryClient.release_role: "ok" removes the holder; any other status
\* raises RegistryError.
ReleaseRoleResults(h) ==
    {[kind |-> "ok", store |-> [storeExp EXCEPT ![h] = 0]],
     [kind |-> "RegistryError", store |-> storeExp]}

\* ------------------------------------------------------------ the handle
\* int((time.time() + num_secs) * 1000), for a time given in half milliseconds.
TargetTimeMsecs(x2) == x2 \div 2

\* Mutant: the comparison admits the expiration instant itself.
IsHoldingAtInclusive(h, x2) == TargetTimeMsecs(x2) <= exp[h]

\* is_holding(): target_time_msecs < self.expiration_time_msecs
IsHoldingAt(h, x2) == TargetTimeMsecs(x2) < exp[h]

\* is_holding() called now, with no lookahead.
IsHolding(h) == IsHoldingAt(h, now * 2000)

\* Mutant: the response's timestamp is recorded without the comparison.
NewExpirationAlways(h, e) == e

\* The expiration recorded after a response carrying timestamp e.
NewExpiration(h, e) == IF e > exp[h] THEN e ELSE exp[h]

LockFree(h) == lock[h] = 0

Alive(h, t) == tpc[h][t] \notin {"none", "done"}
AliveThreads(h) == {t \in Threads : Alive(h, t)}
FreeSlots(h) == Threads \ AliveThreads(h)
MinOf(S) == CHOOSE x \in S : \A y \in S : x <= y
MaxOf(S) == CHOOSE x \in S : \A y \in S : x >= y

\* No is_holding() answer is waiting to be read.
NoObs == [h |-> "none", x2 |-> 0, e |-> 0, r |-> FALSE]

Calling(h) == call[h] \in {"take", "release"}

\* The state after the handles in R have been constructed.
InitWith(R) ==
    /\ roles = R
    /\ ncalls = 0
    /\ now = 0
    /\ storeExp = [h \in Handles |-> 0]
    /\ exp = [h \in Handles |-> 0]
    /\ maintain = [h \in Handles |-> FALSE]
    /\ mthread = [h \in Handles |-> 0]
    /\ lock = [h \in Handles |-> 0]
    /\ call = [h \in Handles |-> "none"]
    /\ tpc = [h \in Handles |-> [t \in Threads |-> "none"]]
    /\ wake = [h \in Handles |-> [t \in Threads |-> 0]]
    /\ retry = [h \in Handles |-> [t \in Threads |-> 0]]
    /\ caught = [h \in Handles |-> [t \in Threads |-> "none"]]
    /\ obs = NoObs

\* ================================================ manager_workers.py: state
\* ------------------------------------------------------------------ bounds
\* Ranges the manager carves before the model stops carving: with one
\* machine, with two machines, in a run without faults, and with one machine
\* where a second tenure can fall behind the first.
MaxChunks == 2
PairChunks == 1
RunChunks == 3
TrackChunks == 3
\* The clock of the machines stops at MgrMaxTime seconds.
MgrMaxTime == 3
\* Faults in all: a store call that fails, a datagram lost, a read of a role
\* that differs from what the store holds.
MaxFaults == 1

\* --------------------------------------------------------------- constants
\* ASSIGNMENT_SIZE
AssignmentSize == 1000
\* RESULT_WAIT_TIME_SECS
ResultWaitTimeSecs == 1

VARIABLES
    staff,      \* the worker machines that have been started
    quota,      \* the ranges the manager may carve in all
    persisted,  \* store: the content saved at the problem state path, NoBlob before the first save
    saved,      \* the in-memory record the last successful save() wrote out
    mpc,        \* machine: where it is in Machine.run / Manager.do_work
    prob,       \* Manager._problem: next, pending, busy_workers, finished
    todo,       \* do_work: the free workers the for loop has not served yet
    iterStart,  \* do_work: the clock when the current iteration passed the loop test
    iterSent,   \* do_work: the (worker, range) pairs sent in the current iteration
    counted,    \* the ranges _recv_results has added to finished in this tenure
    minbox,     \* machine: datagrams waiting in its socket
    winbox,     \* worker: datagrams waiting in its socket
    wpc,        \* worker: "loop" or "crashed"
    wobs,       \* the last pass of Worker.do_work that read other than one manager
    faults,     \* faults so far, counted against MaxFaults
    trail,      \* machine: the take() calls of its current pass of Machine.run
    nap,        \* machine: the end of its idle sleep (seconds), 0 when not asleep
    wlease,     \* machine: its worker role, the lease at the store (seconds) and the
                \* expiration its handle recorded (milliseconds)
    tend,       \* machine: t_end of Machine.run (seconds), 0 where MachineStop stands for it
    frac,       \* the clock's half milliseconds into the current second, where the
                \* loop tests of do_work read them
    port        \* machine: the port its socket is bound to, which is its name; 0
                \* where the machines go by the names of their handles

mwvars == <<staff, quota, persisted, saved, mpc, prob, todo, iterStart, iterSent, counted,
            minbox, winbox, wpc, wobs, faults>>

sitvars == <<wlease, tend, frac, port>>

mcvars == <<trail, nap, sitvars>>

allvars == <<vars, mwvars, mcvars>>

\* --------------------------------------------------- strings and messages
\* A string is a sequence of one-character strings.
DigitChars == <<"0", "1", "2", "3", "4", "5", "6", "7", "8", "9">>

\* str(n) for n >= 0
RECURSIVE Str(_)
Str(n) ==
    IF n < 10 THEN <<DigitChars[n + 1]>>
    ELSE Str(n \div 10) \o <<DigitChars[(n % 10) + 1]>>

DigitValue(c) == (CHOOSE i \in 1..10 : DigitChars[i] = c) - 1

\* int(s) for a string of digits
RECURSIVE IntOf(_)
IntOf(s) ==
    IF Len(s) = 0 THEN 0
    ELSE IntOf(SubSeq(s, 1, Len(s) - 1)) * 10 + DigitValue(s[Len(s)])

\* ",".join(fields)
RECURSIVE JoinComma(_)
JoinComma(fields) ==
    IF Len(fields) = 0 THEN <<>>
    ELSE IF Len(fields) = 1 THEN fields[1]
    ELSE fields[1] \o <<",">> \o JoinComma(Tail(fields))

\* s.split(",")
RECURSIVE SplitComma(_)
SplitComma(s) ==
    IF \E i \in 1..Len(s) : s[i] = ","
      THEN LET i == CHOOSE k \in 1..Len(s) :
                        s[k] = "," /\ \A j \in 1..(k - 1) : s[j] # ","
           IN <<SubSeq(s, 1, i - 1)>> \o SplitComma(SubSeq(s, i + 1, Len(s)))
      ELSE <<s>>

\* The worker machines, by name; the name of a machine is its port number.
Workers == {<<"1">>, <<"2">>}

\* --------------------------------------------------------- ProblemState
\* pending is a dict in insertion order: a sequence of (key, value) items.
\* busy_workers is a dict read only by key: a function.

\* ProblemState.__init__
EmptyProblem == [next |-> 0, pending |-> <<>>, busy |-> <<>>, finished |-> 0]

PendingKeys(p) == {p.pending[i].key : i \in 1..Len(p.pending)}

\* del pending[k]
DelPending(pend, k) == SelectSeq(pend, LAMBDA it : it.key # k)

\* pending[k] = t: an existing key keeps its place, a new key goes last.
SetPending(pend, k, t) ==
    IF \E i \in 1..Len(pend) : pend[i].key = k
      THEN [i \in 1..Len(pend) |->
              IF pend[i].key = k THEN [key |-> k, ts |-> t] ELSE pend[i]]
      ELSE Append(pend, [key |-> k, ts |-> t])

\* del busy_workers[w]
DelBusy(busy, w) == [x \in (DOMAIN busy) \ {w} |-> busy[x]]

\* busy_workers[w] = k
SetBusy(busy, w, k) == [x \in (DOMAIN busy) \cup {w} |-> IF x = w THEN k ELSE busy[x]]

\* Nothing has been written at the problem state path.
NoBlob == <<>>

\* The items of a dict read by key, in one order.
RECURSIVE ItemsOf(_)
ItemsOf(busy) ==
    IF DOMAIN busy = {} THEN <<>>
    ELSE LET w == CHOOSE x \in DOMAIN busy :
                     \A y \in DOMAIN busy : IntOf(x) <= IntOf(y)
         IN <<(<<w, busy[w]>>)>> \o ItemsOf(DelBusy(busy, w))

\* Mutant: durable_json writes the pending items sorted by timestamp.
RECURSIVE ByTimestamp(_)
ByTimestamp(pend) ==
    IF Len(pend) = 0 THEN <<>>
    ELSE LET i == CHOOSE k \in 1..Len(pend) :
                     \A j \in 1..Len(pend) :
                        pend[k].ts > pend[j].ts \/ (pend[k].ts = pend[j].ts /\ k <= j)
         IN <<pend[i]>> \o ByTimestamp(DelPending(pend, pend[i].key))
DurableJsonSorted(p) ==
    << <<"next", p.next>>,
       <<"pending", [i \in 1..Len(p.pending) |->
                       <<ByTimestamp(p.pending)[i].key, ByTimestamp(p.pending)[i].ts>>]>>,
       <<"busy_workers", ItemsOf(p.busy)>>,
       <<"finished", p.finished>> >>

\* ProblemState.durable_json: a JSON object, as the sequence of its members;
\* a dict becomes the sequence of its (key, value) members.
DurableJson(p) ==
    << <<"next", p.next>>,
       <<"pending", [i \in 1..Len(p.pending) |-> <<p.pending[i].key, p.pending[i].ts>>]>>,
       <<"busy_workers", ItemsOf(p.busy)>>,
       <<"finished", p.finished>> >>

\* json.loads(...)[name]
JsonMember(j, name) == j[CHOOSE i \in 1..Len(j) : j[i][1] = name][2]

\* A JSON object read back as a dict in insertion order.
JsonPending(members) ==
    [i \in 1..Len(members) |-> [key |-> members[i][1], ts |-> members[i][2]]]

\* A JSON object read back as a dict read by key.
JsonBusy(members) ==
    [w \in {members[i][1] : i \in 1..Len(members)} |->
        members[CHOOSE i \in 1..Len(members) : members[i][1] = w][2]]

\* ProblemState.load, the four assignments after json.loads.
LoadedProblem(j) ==
    [next |-> JsonMember(j, "next"),
     pending |-> JsonPending(JsonMember(j, "pending")),
     busy |-> JsonBusy(JsonMember(j, "busy_workers")),
     finished |-> JsonMember(j, "finished")]

\* No pass of Worker.do_work has been observed.
NoWobs == [w |-> <<>>, players |-> {}, send |-> {}, solved |-> 0]

\* A machine that has not taken the worker role.
NoLease == [store |-> 0, exp |-> 0]

\* The manager/worker state when every machine starts at pc0 with its t_end
\* in D, the worker machines in W have been started, q ranges may be carved
\* and f faults have been counted.
MWInitAt(pc0, W, q, f, D) ==
    /\ staff = W
    /\ quota = q
    /\ persisted = NoBlob
    /\ saved = EmptyProblem
    /\ mpc = [m \in Handles |-> IF m \in roles THEN pc0 ELSE "off"]
    /\ prob = [m \in Handles |-> EmptyProblem]
    /\ todo = [m \in Handles |-> {}]
    /\ iterStart = [m \in Handles |-> 0]
    /\ iterSent = [m \in Handles |-> {}]
    /\ counted = [m \in Handles |-> {}]
    /\ minbox = [m \in Handles |-> {}]
    /\ winbox = [w \in Workers |-> {}]
    /\ wpc = [w \in Workers |-> "loop"]
    /\ wobs = NoWobs
    /\ faults = f
    /\ trail = [m \in Handles |-> <<>>]
    /\ nap = [m \in Handles |-> 0]
    /\ wlease = [m \in Handles |-> NoLease]
    /\ tend \in [Handles -> D]
    /\ frac = 0
    /\ port = [m \in Handles |-> 0]

\* The same, in a system that leaves t_end to MachineStop.
MWInit(pc0, W, q, f) == MWInitAt(pc0, W, q, f, {0})

\* One handle.
Init == InitWith({"h1"}) /\ MWInit("off", {}, 0, 0)

\* Two handles with distinct names on the same role.
InitTwo == InitWith(Handles) /\ MWInit("off", {}, 0, 0)

\* The callers' calls are counted only when several handles exist.
Budgeted == Cardinality(roles) > 1
CallAllowed == Budgeted => ncalls < MaxCalls
CallCounted == ncalls' = IF Budgeted THEN ncalls + 1 ELSE ncalls

\* Time passes.
Tick ==
    /\ now < MaxTime
    /\ now' = now + 1
    /\ obs' = NoObs
    /\ UNCHANGED <<roles, ncalls, storeExp, exp, maintain, mthread, lock, call, tpc, wake, retry, caught>>

\* Evaluating the arguments of a take_role call raises AttributeError when the
\* handle has no attribute of the name used for player_name: no request is sent.
ArgumentError == [kind |-> "AttributeError", code |-> 0, store |-> storeExp, cexp |-> 0]

\* self.client.take_role(self.role_path, self.name, ...) in take().
TakeCallResults(h) ==
    IF TakePlayerAttr \in RoleAttributes THEN TakeRoleResults(h) ELSE {ArgumentError}

\* self.client.take_role(self.role_path, self.instance_name, ...) in _maintain_role().
RenewCallResults(h) ==
    IF RenewPlayerAttr \in RoleAttributes THEN TakeRoleResults(h) ELSE {ArgumentError}

\* ---------------------------------------------------------------- take()
\* take() enters `with self._lock`.
TakeCall(h) ==
    /\ ~Calling(h)
    /\ CallAllowed
    /\ CallCounted
    /\ LockFree(h)
    /\ lock' = [lock EXCEPT ![h] = MainOwner]
    /\ call' = [call EXCEPT ![h] = "take"]
    /\ obs' = NoObs
    /\ UNCHANGED <<roles, now, storeExp, exp, maintain, mthread, tpc, wake, retry, caught>>

\* The call succeeded: record the expiration if newer, set the flag, start the
\* renewal thread if the handle has none, return True.
TakeGranted(h, r) ==
    /\ exp' = [exp EXCEPT ![h] = NewExpiration(h, r.cexp)]
    /\ maintain' = [maintain EXCEPT ![h] = TRUE]
    /\ IF mthread[h] = 0
         THEN LET t == MinOf(FreeSlots(h)) IN
              /\ mthread' = [mthread EXCEPT ![h] = t]
              /\ tpc' = [tpc EXCEPT ![h][t] = "sleep"]
              /\ wake' = [wake EXCEPT ![h][t] = now + RetakeInterval]
         ELSE UNCHANGED <<mthread, tpc, wake>>
    /\ call' = [call EXCEPT ![h] = "take:True"]

\* Mutant: a refused take() drops the recorded lease.
TakeRefusedClears(h) ==
    /\ call' = [call EXCEPT ![h] = "take:False"]
    /\ exp' = [exp EXCEPT ![h] = 0]
    /\ maintain' = [maintain EXCEPT ![h] = FALSE]
    /\ UNCHANGED <<mthread, tpc, wake>>

\* except RegistryError: return False
TakeRefused(h) ==
    /\ call' = [call EXCEPT ![h] = "take:False"]
    /\ UNCHANGED <<exp, maintain, mthread, tpc, wake>>

\* Any other exception leaves take() through the `with` block.
TakeRaised(h) ==
    /\ call' = [call EXCEPT ![h] = "take:raised"]
    /\ UNCHANGED <<exp, maintain, mthread, tpc, wake>>

\* The body of take() under the lock, to its return.
TakeReturn(h) ==
    /\ call[h] = "take"
    /\ \E r \in TakeCallResults(h) :
         /\ (r.kind = "ok" /\ mthread[h] = 0) => FreeSlots(h) # {}
         /\ storeExp' = r.store
         /\ CASE r.kind = "ok" -> TakeGranted(h, r)
              [] r.kind = "RegistryError" -> TakeRefused(h)
              [] OTHER -> TakeRaised(h)
    /\ lock' = [lock EXCEPT ![h] = 0]
    /\ obs' = NoObs
    /\ UNCHANGED <<roles, ncalls, now, retry, caught>>

\* ------------------------------------------------------------- release()
\* Local names release() has bound when its handler runs, and the name the
\* handler reads (num_attempts -= 1).
ReleaseLocals == {"self"}
ReleaseHandlerReads == "num_attempts"

\* How release() ends when release_role raised: the handler raises
\* UnboundLocalError unless the name it reads is bound; were it bound, the
\* function would fall off its end and return None.
ReleaseOnFailure ==
    IF ReleaseHandlerReads \in ReleaseLocals THEN "release:None" ELSE "release:raised"

\* release() enters `with self._lock`.
ReleaseCall(h) ==
    /\ ~Calling(h)
    /\ CallAllowed
    /\ CallCounted
    /\ LockFree(h)
    /\ lock' = [lock EXCEPT ![h] = MainOwner]
    /\ call' = [call EXCEPT ![h] = "release"]
    /\ obs' = NoObs
    /\ UNCHANGED <<roles, now, storeExp, exp, maintain, mthread, tpc, wake, retry, caught>>

\* What release() writes to the handle before it calls the store.
ReleaseWrites(h) ==
    /\ maintain' = [maintain EXCEPT ![h] = FALSE]
    /\ mthread' = [mthread EXCEPT ![h] = 0]
    /\ UNCHANGED exp

\* The body of release() under the lock, to its return.
ReleaseReturn(h) ==
    /\ call[h] = "release"
    /\ ReleaseWrites(h)
    /\ \E r \in ReleaseRoleResults(h) :
         /\ storeExp' = r.store
         /\ call' = [call EXCEPT ![h] =
                IF r.kind = "ok" THEN "release:True" ELSE ReleaseOnFailure]
    /\ lock' = [lock EXCEPT ![h] = 0]
    /\ obs' = NoObs
    /\ UNCHANGED <<roles, ncalls, now, tpc, wake, retry, caught>>

\* ---------------------------------------------------------- is_holding()
\* The sub-second part of time.time() and the lookahead num_secs the caller
\* passes, in half milliseconds.
SubSecondHalfMs == {0, 1999}
LookaheadHalfMs == {0, 1000}

\* is_holding(num_secs): reads the clock, then compares under the lock.
IsHoldingCall(h) ==
    /\ ~Calling(h)
    /\ LockFree(h)
    /\ \E f \in SubSecondHalfMs, s \in LookaheadHalfMs :
         LET x2 == now * 2000 + f + s IN
         obs' = [h |-> h, x2 |-> x2, e |-> exp[h], r |-> IsHoldingAt(h, x2)]
    /\ UNCHANGED <<roles, ncalls, now, storeExp, exp, maintain, mthread, lock, call, tpc, wake, retry, caught>>

\* ------------------------------------------------------ _maintain_role()
\* Mutant: the outer loop never ends.
OuterLoopCondAlways(h) == TRUE

\* while self._to_maintain_role: (the outer loop, read without the lock)
OuterLoopCond(h) == maintain[h]

\* Mutant: the inner loop does not test the flag again under the lock.
InnerLoopCondNoFlag(h, t) == retry[h][t] > 0

\* while self._to_maintain_role and retry_remaining > 0: (under the lock)
InnerLoopCond(h, t) == maintain[h] /\ retry[h][t] > 0

\* time.sleep(retake_interval) is over: test the outer loop's condition.
MaintainWake(h, t) ==
    /\ tpc[h][t] = "sleep"
    /\ now >= wake[h][t]
    /\ tpc' = [tpc EXCEPT ![h][t] = IF OuterLoopCond(h) THEN "wantlock" ELSE "done"]
    /\ wake' = [wake EXCEPT ![h][t] = 0]
    /\ obs' = NoObs
    /\ UNCHANGED <<roles, ncalls, now, storeExp, exp, maintain, mthread, lock, call, retry, caught>>

\* with self._lock: retry_remaining = num_retries
MaintainLock(h, t) ==
    /\ tpc[h][t] = "wantlock"
    /\ LockFree(h)
    /\ lock' = [lock EXCEPT ![h] = t]
    /\ retry' = [retry EXCEPT ![h][t] = NumRetries]
    /\ tpc' = [tpc EXCEPT ![h][t] = "inner"]
    /\ obs' = NoObs
    /\ UNCHANGED <<roles, ncalls, now, storeExp, exp, maintain, mthread, call, wake, caught>>

\* One pass of the inner loop's try: the call, then either the recording of
\* the response or the entry into the handler (time.sleep(1) under the lock).
MaintainAttempt(h, t) ==
    /\ tpc[h][t] = "inner"
    /\ InnerLoopCond(h, t)
    /\ \E r \in RenewCallResults(h) :
         /\ storeExp' = r.store
         /\ IF r.kind = "ok"
              THEN /\ exp' = [exp EXCEPT ![h] = NewExpiration(h, r.cexp)]
                   /\ retry' = [retry EXCEPT ![h][t] = 0]
                   /\ UNCHANGED <<tpc, wake, caught>>
              ELSE /\ tpc' = [tpc EXCEPT ![h][t] = "retrysleep"]
                   /\ wake' = [wake EXCEPT ![h][t] = now + 1]
                   /\ caught' = [caught EXCEPT ![h][t] = r.kind]
                   /\ UNCHANGED <<exp, retry>>
    /\ obs' = NoObs
    /\ UNCHANGED <<roles, ncalls, now, maintain, mthread, lock, call>>

\* The handler's time.sleep(1) is over: retry_remaining -= 1
MaintainRetryWake(h, t) ==
    /\ tpc[h][t] = "retrysleep"
    /\ now >= wake[h][t]
    /\ retry' = [retry EXCEPT ![h][t] = retry[h][t] - 1]
    /\ tpc' = [tpc EXCEPT ![h][t] = "inner"]
    /\ wake' = [wake EXCEPT ![h][t] = 0]
    /\ caught' = [caught EXCEPT ![h][t] = "none"]
    /\ obs' = NoObs
    /\ UNCHANGED <<roles, ncalls, now, storeExp, exp, maintain, mthread, lock, call>>

\* Mutant: the sleep to the next cycle is made inside the `with` block.
MaintainUnlockSleepsLocked(h, t) ==
    /\ tpc[h][t] = "inner"
    /\ ~InnerLoopCond(h, t)
    /\ retry' = [retry EXCEPT ![h][t] = 0]
    /\ tpc' = [tpc EXCEPT ![h][t] = "sleep"]
    /\ wake' = [wake EXCEPT ![h][t] = now + RetakeInterval]
    /\ obs' = NoObs
    /\ UNCHANGED <<roles, ncalls, now, storeExp, exp, maintain, mthread, lock, call, caught>>

\* The inner loop ends: leave the lock and time.sleep(retake_interval).
MaintainUnlock(h, t) ==
    /\ tpc[h][t] = "inner"
    /\ ~InnerLoopCond(h, t)
    /\ lock' = [lock EXCEPT ![h] = 0]
    /\ retry' = [retry EXCEPT ![h][t] = 0]
    /\ tpc' = [tpc EXCEPT ![h][t] = "sleep"]
    /\ wake' = [wake EXCEPT ![h][t] = now + RetakeInterval]
    /\ obs' = NoObs
    /\ UNCHANGED <<roles, ncalls, now, storeExp, exp, maintain, mthread, call, caught>>

Next ==
    \/ Tick /\ UNCHANGED <<mwvars, mcvars>>
    \/ (\E h \in roles : TakeCall(h)) /\ UNCHANGED <<mwvars, mcvars>>
    \/ (\E h \in roles : TakeReturn(h)) /\ UNCHANGED <<mwvars, mcvars>>
    \/ (\E h \in roles : ReleaseCall(h)) /\ UNCHANGED <<mwvars, mcvars>>
    \/ (\E h \in roles : ReleaseReturn(h)) /\ UNCHANGED <<mwvars, mcvars>>
    \/ (\E h \in roles : IsHoldingCall(h)) /\ UNCHANGED <<mwvars, mcvars>>
    \/ (\E h \in roles, t \in Threads : MaintainWake(h, t)) /\ UNCHANGED <<mwvars, mcvars>>
    \/ (\E h \in roles, t \in Threads : MaintainLock(h, t)) /\ UNCHANGED <<mwvars, mcvars>>
    \/ (\E h \in roles, t \in Threads : MaintainAttempt(h, t)) /\ UNCHANGED <<mwvars, mcvars>>
    \/ (\E h \in roles, t \in Threads : MaintainRetryWake(h, t)) /\ UNCHANGED <<mwvars, mcvars>>
    \/ (\E h \in roles, t \in Threads : MaintainUnlock(h, t)) /\ UNCHANGED <<mwvars, mcvars>>

Spec == Init /\ [][Next]_allvars

SpecTwo == InitTwo /\ [][Next]_allvars

\* ======================================== manager_workers.py: the machines
\* A machine is named like its manager Role handle.  A machine of this part
\* plays the manager role or none; the workers are machines of their own.
\* The renewal thread take() starts is left asleep: it changes neither the
\* handle's expiration nor the store (RenewCallResults).  The store's clock
\* and the machines' clocks agree: a granted take returns the store's own
\* expiration, the latest the handle may record.

TestPcs == {"loaded", "loadfailed", "test"}
BodyPcs == {"recv", "workers", "assign"}

\* Some machine is running: the model follows the system until the last
\* machine has stopped.
Running(m) ==
    mpc[m] \in {"run", "load", "recv", "workers", "assign", "elif", "manager", "worker", "idle",
               "miter", "witer"}
               \cup TestPcs
SomeRunning == \E m \in roles : Running(m)

\* do_work is left (by return or by an exception): the Manager object, its
\* ProblemState and the locals of do_work are gone.
LeaveDoWork(m) ==
    /\ prob' = [prob EXCEPT ![m] = EmptyProblem]
    /\ todo' = [todo EXCEPT ![m] = {}]
    /\ iterStart' = [iterStart EXCEPT ![m] = 0]
    /\ iterSent' = [iterSent EXCEPT ![m] = {}]
    /\ counted' = [counted EXCEPT ![m] = {}]

\* An iteration of do_work ends: back to the loop test.
EndIteration(m) ==
    /\ iterStart' = [iterStart EXCEPT ![m] = 0]
    /\ iterSent' = [iterSent EXCEPT ![m] = {}]
    /\ UNCHANGED <<prob, todo, counted>>

CanFail == faults < MaxFaults
Fault(b) == faults' = IF b THEN faults + 1 ELSE faults

\* Machine.run: self._manager_role.take() at the top of the loop; on True it
\* prints len(active_players()), which raises when the read of the role
\* failed (active_players() returned None) or raised; then a Manager is built
\* (with a new ProblemState) and do_work() starts.  The machine goes on at
\* `granted` after True and at `refused` after False.
TakeManager(m, granted, refused) ==
    /\ mpc[m] = "run"
    /\ \E r \in TakeCallResults(m) : \E pl \in {"set", "None", "raises"} :
         /\ r.kind = "ok" => r.cexp = 1000 * r.store[m]
         /\ r.kind # "ok" => pl = "set"
         /\ (r.code \notin {200, 409} \/ pl # "set") => CanFail
         /\ Fault(r.code \notin {200, 409} \/ pl # "set")
         /\ storeExp' = r.store
         /\ CASE r.kind = "ok" ->
                   /\ TakeGranted(m, r)
                   /\ mpc' = [mpc EXCEPT ![m] =
                                IF pl = "set" THEN granted ELSE "crashed:players"]
              [] r.kind = "RegistryError" ->
                   /\ TakeRefused(m)
                   /\ mpc' = [mpc EXCEPT ![m] = refused]
              [] OTHER ->
                   /\ TakeRaised(m)
                   /\ mpc' = [mpc EXCEPT ![m] = "crashed:take"]
    /\ prob' = [prob EXCEPT ![m] = EmptyProblem]
    /\ counted' = [counted EXCEPT ![m] = {}]
    /\ wobs' = NoWobs
    /\ UNCHANGED <<roles, ncalls, now, lock, retry, caught, obs>>
    /\ UNCHANGED <<staff, quota, persisted, saved, todo, iterStart, iterSent, minbox, winbox, wpc>>

\* A machine of the manager-and-staff systems: granted the manager role it
\* enters Manager.do_work; refused, it is back at the top of the loop (its
\* own worker and idle branches are not followed there: the workers are the
\* machines in staff).
MachineTake(m) ==
    /\ TakeManager(m, "load", "run")
    /\ UNCHANGED mcvars

\* RegistryClient.read_data: "ok" returns the stored content; a status other
\* than 200 (404 before the first save, 500, ...) raises RegistryError; the
\* request itself failing raises an exception that is no RegistryError.
ReadDataResults ==
    {[kind |-> "ok", code |-> 200, content |-> persisted] : x \in
         IF persisted # NoBlob THEN {0} ELSE {}}
    \cup {[kind |-> "RegistryError", code |-> 404, content |-> NoBlob] : x \in
         IF persisted = NoBlob THEN {0} ELSE {}}
    \cup {[kind |-> "RegistryError", code |-> 500, content |-> NoBlob],
          [kind |-> "OtherError", code |-> 0, content |-> NoBlob]}

\* except registry_client.RegistryError in load()
LoadHandles(kind) == kind = "RegistryError"

\* Manager.do_work: self._problem.load()
MgrLoad(m) ==
    /\ mpc[m] = "load"
    /\ \E r \in ReadDataResults :
         /\ r.code \notin {200, 404} => CanFail
         /\ Fault(r.code \notin {200, 404})
         /\ CASE r.kind = "ok" ->
                   /\ prob' = [prob EXCEPT ![m] = LoadedProblem(r.content)]
                   /\ mpc' = [mpc EXCEPT ![m] = "loaded"]
              [] LoadHandles(r.kind) ->
                   /\ mpc' = [mpc EXCEPT ![m] = "loadfailed"]
                   /\ UNCHANGED prob
              [] OTHER ->
                   /\ mpc' = [mpc EXCEPT ![m] = "crashed:load"]
                   /\ prob' = [prob EXCEPT ![m] = EmptyProblem]
    /\ wobs' = NoWobs
    /\ UNCHANGED vars
    /\ UNCHANGED <<sitvars, trail, nap, staff, quota, persisted, saved, todo, iterStart, iterSent, counted, minbox, winbox, wpc>>

\* Mutant: the loop test does not ask the handle.
LoopCondNoLease(m) == TRUE

\* while ... and self._role.is_holding(0.5) (the deadline is MachineStop)
LoopCond(m) == IsHoldingAt(m, now * 2000 + 1000)

\* The loop test of Manager.do_work: another iteration, or return to run().
MgrTest(m) ==
    /\ mpc[m] \in TestPcs
    /\ IF LoopCond(m)
         THEN /\ mpc' = [mpc EXCEPT ![m] = "recv"]
              /\ iterStart' = [iterStart EXCEPT ![m] = now]
              /\ UNCHANGED <<prob, todo, iterSent, counted>>
         ELSE /\ mpc' = [mpc EXCEPT ![m] = "run"]
              /\ LeaveDoWork(m)
    /\ wobs' = NoWobs
    /\ UNCHANGED vars
    /\ UNCHANGED <<sitvars, trail, nap, staff, quota, persisted, saved, minbox, winbox, wpc, faults>>

\* t_end is reached (t_end is random): the loops of do_work and run end, and
\* the machine stops without releasing its role.
MachineStop(m) ==
    /\ mpc[m] \in TestPcs \cup {"run"}
    /\ mpc' = [mpc EXCEPT ![m] = "stopped"]
    /\ LeaveDoWork(m)
    /\ wobs' = NoWobs
    /\ UNCHANGED vars
    /\ UNCHANGED <<sitvars, trail, nap, staff, quota, persisted, saved, minbox, winbox, wpc, faults>>

\* Mutant: a result is recorded whether or not its range is pending.
RecvResultAlways(p, f) ==
    [p EXCEPT !.busy = DelBusy(@, f[4]),
              !.finished = @ + IntOf(f[3]),
              !.pending = DelPending(@, JoinComma(<<f[1], f[2]>>))]

\* _recv_results, one message (lower, higher, count, worker) after the assert.
RecvResult(p, f) ==
    LET assignment == JoinComma(<<f[1], f[2]>>) IN
    IF assignment \in PendingKeys(p)
      THEN [p EXCEPT !.busy = DelBusy(@, f[4]),
                     !.finished = @ + IntOf(f[3]),
                     !.pending = DelPending(@, assignment)]
      ELSE [p EXCEPT !.busy = DelBusy(@, f[4])]

\* _recv_results: one message is received.  Unpacking it or the assert may
\* raise; `except Exception` then ends the draining of this iteration.
MgrRecvOne(m) ==
    /\ mpc[m] = "recv"
    /\ \E msg \in minbox[m] :
         LET f == SplitComma(msg) IN
         /\ minbox' = [minbox EXCEPT ![m] = @ \ {msg}]
         /\ IF Len(f) # 4 \/ f[4] \notin DOMAIN prob[m].busy
              THEN /\ mpc' = [mpc EXCEPT ![m] = "workers"]
                   /\ UNCHANGED <<prob, counted>>
              ELSE /\ prob' = [prob EXCEPT ![m] = RecvResult(@, f)]
                   /\ counted' = [counted EXCEPT ![m] =
                         IF prob'[m].finished # prob[m].finished
                           THEN @ \cup {JoinComma(<<f[1], f[2]>>)} ELSE @]
                   /\ UNCHANGED mpc
    /\ wobs' = NoWobs
    /\ UNCHANGED vars
    /\ UNCHANGED <<sitvars, trail, nap, staff, quota, persisted, saved, todo, iterStart, iterSent, winbox, wpc, faults>>

\* Role.active_players() on the worker role: the names the store reports with
\* playtime left, or None after a RegistryError.
WorkerPlayersResults ==
    {[kind |-> "ok", players |-> S] : S \in SUBSET staff}
    \cup {[kind |-> "None", players |-> {}]}

\* Mutant: every active worker counts as free.
FreeWorkersAll(players, busy) == players

\* free_workers = self._workers.active_players() - busy_workers.keys()
FreeWorkers(players, busy) == players \ DOMAIN busy

\* _recv_results ends (recv finds no datagram: the socket is non-blocking,
\* and what has not arrived yet stays for a later iteration), then
\* free_workers = self._workers.active_players() - busy_workers.keys()
\* (None - keys raises TypeError, which leaves do_work and run).
MgrReadWorkers(m) ==
    /\ mpc[m] \in {"recv", "workers"}
    /\ \E r \in WorkerPlayersResults :
         /\ r.players # staff => CanFail
         /\ Fault(r.players # staff)
         /\ IF r.kind = "ok"
              THEN /\ todo' = [todo EXCEPT ![m] = FreeWorkers(r.players, prob[m].busy)]
                   /\ mpc' = [mpc EXCEPT ![m] = "assign"]
                   /\ UNCHANGED <<prob, iterStart, iterSent, counted>>
              ELSE /\ mpc' = [mpc EXCEPT ![m] = "crashed:workers"]
                   /\ LeaveDoWork(m)
    /\ wobs' = NoWobs
    /\ UNCHANGED vars
    /\ UNCHANGED <<sitvars, trail, nap, staff, quota, persisted, saved, minbox, winbox, wpc>>

\* The pending items whose timestamp + _resp_wait_time < time.time().
Stalled(p, t) == {i \in 1..Len(p.pending) : p.pending[i].ts + ResultWaitTimeSecs < t}

\* Mutant: a new range is carved even when a pending one is stalled.
GetAssignmentCarves(p, t) == <<p.next, p.next + AssignmentSize>>

\* Mutant: a new range starts one chunk above next.
GetAssignmentSkips(p, t) ==
    IF Stalled(p, t) # {}
      THEN LET i == MinOf(Stalled(p, t))
               r == SplitComma(p.pending[i].key)
           IN <<IntOf(r[1]), IntOf(r[2])>>
      ELSE <<p.next + AssignmentSize, p.next + 2 * AssignmentSize>>

\* Manager._get_assignment at clock t
GetAssignment(p, t) ==
    IF Stalled(p, t) # {}
      THEN LET i == MinOf(Stalled(p, t))
               r == SplitComma(p.pending[i].key)
           IN <<IntOf(r[1]), IntOf(r[2])>>
      ELSE <<p.next, p.next + AssignmentSize>>

\* message = ",".join(map(str, (assignment[0], assignment[1])))
AssignmentMessage(a) == JoinComma(<<Str(a[1]), Str(a[2])>>)

\* Mutant: sending a new range leaves next where it was.
SendAssignmentKeepsNext(p, a, w, t) ==
    [next |-> p.next,
     pending |-> SetPending(p.pending, AssignmentMessage(a), t),
     busy |-> SetBusy(p.busy, w, AssignmentMessage(a)),
     finished |-> p.finished]

\* Manager._send_assignment at clock t: the record after the send.
SendAssignment(p, a, w, t) ==
    [next |-> IF a[2] > p.next THEN a[2] ELSE p.next,
     pending |-> SetPending(p.pending, AssignmentMessage(a), t),
     busy |-> SetBusy(p.busy, w, AssignmentMessage(a)),
     finished |-> p.finished]

\* assert assignment[0] == self._problem.next, reached when assignment[1] > next
SendAsserts(p, a) == a[2] > p.next => a[1] = p.next

\* for worker in free_workers: one worker is served.  The datagram leaves
\* before the assert.
MgrAssignOne(m) ==
    /\ mpc[m] = "assign"
    /\ \E w \in todo[m] :
         LET a == GetAssignment(prob[m], now) IN
         /\ a[2] <= quota * AssignmentSize
         /\ winbox' = [winbox EXCEPT ![w] = @ \cup {AssignmentMessage(a)}]
         /\ IF SendAsserts(prob[m], a)
              THEN /\ prob' = [prob EXCEPT ![m] = SendAssignment(@, a, w, now)]
                   /\ todo' = [todo EXCEPT ![m] = @ \ {w}]
                   /\ iterSent' = [iterSent EXCEPT ![m] = @ \cup {<<w, AssignmentMessage(a)>>}]
                   /\ UNCHANGED <<mpc, iterStart, counted>>
              ELSE /\ mpc' = [mpc EXCEPT ![m] = "crashed:assert"]
                   /\ LeaveDoWork(m)
    /\ wobs' = NoWobs
    /\ UNCHANGED vars
    /\ UNCHANGED <<sitvars, trail, nap, staff, quota, persisted, saved, minbox, wpc, faults>>

\* RegistryClient.write_data: 200/201 stores the content; another status
\* raises RegistryError; the request failing raises another exception.
WriteDataResults == {"ok", "RegistryError", "OtherError"}

\* The for loop has served every free worker: ProblemState.save ends the
\* iteration; do_work ignores what it returns.
MgrSave(m) ==
    /\ mpc[m] = "assign"
    /\ todo[m] = {}
    /\ \E k \in WriteDataResults :
         /\ k # "ok" => CanFail
         /\ Fault(k # "ok")
         /\ CASE k = "ok" ->
                   /\ persisted' = DurableJson(prob[m])
                   /\ saved' = prob[m]
                   /\ mpc' = [mpc EXCEPT ![m] = "test"]
                   /\ EndIteration(m)
              [] k = "RegistryError" ->
                   /\ mpc' = [mpc EXCEPT ![m] = "test"]
                   /\ EndIteration(m)
                   /\ UNCHANGED <<persisted, saved>>
              [] OTHER ->
                   /\ mpc' = [mpc EXCEPT ![m] = "crashed:save"]
                   /\ LeaveDoWork(m)
                   /\ UNCHANGED <<persisted, saved>>
    /\ wobs' = NoWobs
    /\ UNCHANGED vars
    /\ UNCHANGED <<sitvars, trail, nap, staff, quota, minbox, winbox, wpc>>

\* --------------------------------------------------------------- workers
\* Mutant: the count includes the upper bound.
WorkerCountInclusive(lower, higher) == IF higher >= lower THEN higher - lower + 1 ELSE 0

\* for i in range(lower, higher): count += 1
WorkerCount(lower, higher) == IF higher > lower THEN higher - lower ELSE 0

\* Role.active_players() on the manager role, as a worker reads it: the
\* holders the store reports with playtime left, or None.  A read that is
\* not exactly the one holder the store has is counted as a fault.
ManagerPlayersResults ==
    {[kind |-> "ok", players |-> S] : S \in SUBSET roles}
    \cup {[kind |-> "None", players |-> {}]}

\* Mutant: the worker reports whenever it sees some manager.
WorkerOutcomeAny(players, lower, higher, name) ==
    IF players # {}
      THEN [send |-> {[to |-> CHOOSE p \in players : TRUE,
                       msg |-> JoinComma(<<Str(lower), Str(higher),
                                           Str(WorkerCount(lower, higher)), name>>)]},
            solved |-> 1]
      ELSE [send |-> {}, solved |-> 0]

\* if len(players) == 1: the report sent and the increment of solved.
WorkerOutcome(players, lower, higher, name) ==
    IF Cardinality(players) = 1
      THEN [send |-> {[to |-> CHOOSE p \in players : TRUE,
                       msg |-> JoinComma(<<Str(lower), Str(higher),
                                           Str(WorkerCount(lower, higher)), name>>)]},
            solved |-> 1]
      ELSE [send |-> {}, solved |-> 0]

\* One pass of Worker.do_work that receives an assignment: parse, count, read
\* the manager role, report.  len(None) raises TypeError, which only
\* `except socket.timeout` could catch: it leaves do_work.
WorkerPass(w) ==
    /\ SomeRunning
    /\ wpc[w] = "loop"
    /\ \E msg \in winbox[w], r \in ManagerPlayersResults :
         LET pair == SplitComma(msg)
             out == WorkerOutcome(r.players, IntOf(pair[1]), IntOf(pair[2]), w)
             odd == r.kind # "ok" \/ r.players # StoreActive
         IN
         /\ odd => CanFail
         /\ Fault(odd)
         /\ winbox' = [winbox EXCEPT ![w] = @ \ {msg}]
         /\ IF r.kind = "ok"
              THEN /\ minbox' = [g \in Handles |->
                         minbox[g] \cup {s.msg : s \in {x \in out.send : x.to = g}}]
                   /\ wobs' = IF Cardinality(r.players) = 1 THEN NoWobs
                              ELSE [w |-> w, players |-> r.players,
                                    send |-> out.send, solved |-> out.solved]
                   /\ UNCHANGED wpc
              ELSE /\ wpc' = [wpc EXCEPT ![w] = "crashed"]
                   /\ wobs' = NoWobs
                   /\ UNCHANGED minbox
    /\ UNCHANGED vars
    /\ UNCHANGED <<sitvars, trail, nap, staff, quota, persisted, saved, mpc, prob, todo, iterStart, iterSent, counted>>

\* --------------------------------------------------------------- network
\* UDP: a datagram waiting in a socket, or on its way there, is lost.
LoseDatagram ==
    /\ SomeRunning
    /\ CanFail
    /\ \/ /\ \E m \in roles : \E msg \in minbox[m] :
                minbox' = [minbox EXCEPT ![m] = @ \ {msg}]
          /\ UNCHANGED winbox
       \/ /\ \E w \in staff : \E msg \in winbox[w] :
                winbox' = [winbox EXCEPT ![w] = @ \ {msg}]
          /\ UNCHANGED minbox
    /\ Fault(TRUE)
    /\ wobs' = NoWobs
    /\ UNCHANGED vars
    /\ UNCHANGED <<sitvars, trail, nap, staff, quota, persisted, saved, mpc, prob, todo, iterStart, iterSent, counted, wpc>>

\* Time passes, but not between two sends of one for loop, which makes no
\* blocking call.
MWTick ==
    /\ SomeRunning
    /\ now < MgrMaxTime
    /\ \A m \in roles : ~(mpc[m] = "assign" /\ todo[m] # {} /\ iterSent[m] # {})
    /\ Tick
    /\ wobs' = NoWobs
    /\ UNCHANGED <<sitvars, trail, nap, staff, quota, persisted, saved, mpc, prob, todo, iterStart, iterSent, counted,
                   minbox, winbox, wpc, faults>>

NextMW ==
    \/ MWTick
    \/ \E m \in roles : MachineTake(m)
    \/ \E m \in roles : MgrLoad(m)
    \/ \E m \in roles : MgrTest(m)
    \/ \E m \in roles : MachineStop(m)
    \/ \E m \in roles : MgrRecvOne(m)
    \/ \E m \in roles : MgrReadWorkers(m)
    \/ \E m \in roles : MgrAssignOne(m)
    \/ \E m \in roles : MgrSave(m)
    \/ \E w \in staff : WorkerPass(w)
    \/ LoseDatagram

\* One machine and the workers.
InitMgr == InitWith({"h1"}) /\ MWInit("run", Workers, MaxChunks, 0)
SpecMgr == InitMgr /\ [][NextMW]_allvars

\* Two machines and one worker.
InitMgr2 == InitWith(Handles) /\ MWInit("run", {Str(1)}, PairChunks, 0)
SpecMgr2 == InitMgr2 /\ [][NextMW]_allvars

\* One machine and one worker.
InitSolo == InitWith({"h1"}) /\ MWInit("run", {Str(1)}, MaxChunks, 0)
SpecSolo == InitSolo /\ [][NextMW]_allvars

\* One machine and the workers in a run without faults: no datagram is lost.
NextRun ==
    \/ MWTick
    \/ \E m \in roles : MachineTake(m)
    \/ \E m \in roles : MgrLoad(m)
    \/ \E m \in roles : MgrTest(m)
    \/ \E m \in roles : MachineStop(m)
    \/ \E m \in roles : MgrRecvOne(m)
    \/ \E m \in roles : MgrReadWorkers(m)
    \/ \E m \in roles : MgrAssignOne(m)
    \/ \E m \in roles : MgrSave(m)
    \/ \E w \in staff : WorkerPass(w)
InitRun == InitWith({"h1"}) /\ MWInit("run", Workers, RunChunks, MaxFaults)
SpecRun == InitRun /\ [][NextRun]_allvars

\* ------------------------------------------------------------ Machine.run
\* The loop of Machine.run with its three branches, from the drawing of
\* t_end to the end of run().  Of Manager.do_work and Worker.do_work the loop
\* test is followed; what an iteration does is left out here.  A machine is
\* at "manager" or "worker" when do_work has been entered, and at "miter" or
\* "witer" once the loop test has passed and an iteration runs.

\* t_end = random.uniform(time.time(), self._termination_time): a t_end the
\* clock passes, and one it does not reach.
Deadlines == {MgrMaxTime - 1, MgrMaxTime + 1}

\* while time.time() < t_end:
RunLoopCond(m) == now < tend[m]

\* if self._manager_role.take(): (Manager) ... elif ...
ManagerBranch(taken) == IF taken THEN "manager" ELSE "elif"

\* Mutant: the Worker component runs whatever the worker take() returned.
WorkerBranchRuns(taken) == "worker"

\* elif self._worker_role.take(): (Worker) ... else: (idle)
WorkerBranch(taken) == IF taken THEN "worker" ELSE "idle"

\* A pass of the loop starts with the take() of the manager role.
MachinePass(m) ==
    /\ RunLoopCond(m)
    /\ TakeManager(m, ManagerBranch(TRUE), ManagerBranch(FALSE))
    /\ trail' = [trail EXCEPT ![m] = <<<<"manager", call'[m]>>>>]
    /\ UNCHANGED <<nap, sitvars>>

\* self._worker_role.take(): True, False (the role has NUM_WORKERS slots and
\* more machines than that exist, so the store may refuse at any time), or an
\* exception that take() does not catch.
WorkerTakeResults == {"take:True", "take:False", "take:raised"}

\* A granted take() of the worker role: the store holds the machine's name
\* for the playtime, and the handle records the expiration the store
\* returned (the clocks agree, and it is newer than the one recorded).
WorkerLease(m) ==
    [store |-> now + PlayTimeSecs, exp |-> 1000 * (now + PlayTimeSecs)]

\* The elif of the pass: the take() of the worker role; on True the print of
\* len(active_players()), which raises on None; on False the idle branch
\* starts its time.sleep(1).
MachineWorkerTake(m) ==
    /\ mpc[m] = "elif"
    /\ \E t \in WorkerTakeResults : \E pl \in {"set", "None", "raises"} :
         /\ t # "take:True" => pl = "set"
         /\ (t = "take:raised" \/ pl # "set") => CanFail
         /\ Fault(t = "take:raised" \/ pl # "set")
         /\ trail' = [trail EXCEPT ![m] = Append(@, <<"worker", t>>)]
         /\ mpc' = [mpc EXCEPT ![m] =
                      CASE t = "take:raised" -> "crashed:take"
                        [] pl # "set" -> "crashed:players"
                        [] OTHER -> WorkerBranch(t = "take:True")]
         /\ nap' = [nap EXCEPT ![m] = IF mpc'[m] = "idle" THEN now + 1 ELSE 0]
         /\ IF t = "take:True"
              THEN wlease' = [wlease EXCEPT ![m] = WorkerLease(m)]
              ELSE UNCHANGED wlease
    /\ UNCHANGED vars
    /\ UNCHANGED <<tend, frac, port>>
    /\ UNCHANGED <<staff, quota, persisted, saved, prob, todo, iterStart, iterSent, counted,
                   minbox, winbox, wpc, wobs>>

\* Mutant: the loop test of do_work does not look at t_end.
DoWorkLoopCondNoMargin(m, e) == TargetTimeMsecs(now * 2000 + frac + 1000) < e

\* while t_end - time.time() >= 0.5 and self._role.is_holding(0.5): for a
\* handle whose recorded expiration is e.
DoWorkLoopCond(m, e) ==
    /\ tend[m] * 2000 - (now * 2000 + frac) >= 1000
    /\ TargetTimeMsecs(now * 2000 + frac + 1000) < e

\* A component's do_work moves machine m from a position in `from` to `to`;
\* nothing else of the machine changes (no role is released).
DoWorkStep(m, from, to) ==
    /\ mpc[m] \in from
    /\ mpc' = [mpc EXCEPT ![m] = to]
    /\ UNCHANGED vars
    /\ UNCHANGED <<sitvars, nap>>
    /\ UNCHANGED <<staff, quota, persisted, saved, prob, todo, iterStart, iterSent, counted,
                   minbox, winbox, wpc, wobs, faults>>

\* Manager.do_work: the loop test passes (the first time, or after an
\* iteration) and an iteration starts.
ManagerIterates(m) ==
    /\ DoWorkLoopCond(m, exp[m])
    /\ DoWorkStep(m, {"manager", "miter"}, "miter")
    /\ UNCHANGED trail

\* manager.do_work(t_end) returns: the loop test failed, the pass is over.
ManagerReturns(m) ==
    /\ ~DoWorkLoopCond(m, exp[m])
    /\ DoWorkStep(m, {"manager", "miter"}, "run")
    /\ trail' = [trail EXCEPT ![m] = <<>>]

\* Worker.do_work: the loop test passes and an iteration starts.
WorkerIterates(m) ==
    /\ DoWorkLoopCond(m, wlease[m].exp)
    /\ DoWorkStep(m, {"worker", "witer"}, "witer")
    /\ UNCHANGED trail

\* worker.do_work(t_end) returns: the loop test failed, the pass is over.
WorkerReturns(m) ==
    /\ ~DoWorkLoopCond(m, wlease[m].exp)
    /\ DoWorkStep(m, {"worker", "witer"}, "run")
    /\ trail' = [trail EXCEPT ![m] = <<>>]

\* time.sleep(1) of the idle branch ends: the pass is over.
IdleWakes(m) ==
    /\ mpc[m] = "idle"
    /\ now >= nap[m]
    /\ mpc' = [mpc EXCEPT ![m] = "run"]
    /\ trail' = [trail EXCEPT ![m] = <<>>]
    /\ nap' = [nap EXCEPT ![m] = 0]
    /\ UNCHANGED vars
    /\ UNCHANGED sitvars
    /\ UNCHANGED <<staff, quota, persisted, saved, prob, todo, iterStart, iterSent, counted,
                   minbox, winbox, wpc, wobs, faults>>

\* The loop of run() ends: "Machine ... crashed." is printed and run()
\* returns; no role is released.
RunEnds(m) ==
    /\ mpc[m] = "run"
    /\ ~RunLoopCond(m)
    /\ mpc' = [mpc EXCEPT ![m] = "stopped"]
    /\ UNCHANGED vars
    /\ UNCHANGED <<mcvars, staff, quota, persisted, saved, prob, todo, iterStart, iterSent,
                   counted, minbox, winbox, wpc, wobs, faults>>

\* A second ends.
MachineTick ==
    /\ SomeRunning
    /\ now < MgrMaxTime
    /\ Tick
    /\ frac' = 0
    /\ UNCHANGED <<mwvars, trail, nap, wlease, tend, port>>

\* Time passes within the second, to its last half millisecond.
FracPasses ==
    /\ SomeRunning
    /\ frac = 0
    /\ frac' = MaxOf(SubSecondHalfMs)
    /\ UNCHANGED <<vars, mwvars, trail, nap, wlease, tend, port>>

NextMachine ==
    \/ MachineTick
    \/ FracPasses
    \/ \E m \in roles : MachinePass(m)
    \/ \E m \in roles : MachineWorkerTake(m)
    \/ \E m \in roles : ManagerIterates(m)
    \/ \E m \in roles : ManagerReturns(m)
    \/ \E m \in roles : WorkerIterates(m)
    \/ \E m \in roles : WorkerReturns(m)
    \/ \E m \in roles : IdleWakes(m)
    \/ \E m \in roles : RunEnds(m)

\* Two machines, each running Machine.run with a t_end of its own.
InitMachine == InitWith(Handles) /\ MWInitAt("run", {}, 0, 0, Deadlines)
SpecMachine == InitMachine /\ [][NextMachine]_allvars

\* ------------------------------------------------------ babysit / __main__
\* The sitter threads __main__ starts, one under each handle name, each
\* running babysit().  Of Machine.run a sitter sees how it ends: the loop of
\* run() ends and run() returns (RunEnds), or an exception leaves run().  A
\* sitter is at "babysit" before its first machine, at "run" while its
\* machine runs, at "stopped" when run() has returned, at "crashed:players"
\* when an exception has left run() and babysit(), and at "done" when
\* babysit() has returned.

\* t_end of __main__, time.time() + RUN_TIME_SECS: the clock goes on past it.
SitEnd == MgrMaxTime - 1

\* The ports the system hands out: one for the machine of every sitter, and
\* one to spare.
Ports == 1..(Cardinality(Handles) + 1)

\* The ports bound to a socket that still exists: the variable `machine` of
\* babysit() keeps the last machine, and its socket, until the next one has
\* been created.
BoundPorts == {port[s] : s \in roles} \ {0}

\* while time.time() < t_end: of babysit().
SitLoopCond == now < SitEnd

\* A step of sitter s to position pc; the roles, the store and the sockets'
\* contents are left alone.
SitStep(s, pc) ==
    /\ mpc' = [mpc EXCEPT ![s] = pc]
    /\ UNCHANGED vars
    /\ UNCHANGED <<trail, nap, wlease, frac>>
    /\ UNCHANGED <<staff, quota, persisted, saved, prob, todo, iterStart, iterSent, counted,
                   minbox, winbox, wpc, wobs>>

\* The loop test of babysit() passes: create_machine binds a socket to a
\* port the system picks among those not bound, the machine is named after
\* it, and run() draws its own t_end between now and the sitters' t_end.
SitterCreates(s) ==
    /\ mpc[s] \in {"babysit", "stopped"}
    /\ SitLoopCond
    /\ \E p \in Ports \ BoundPorts : port' = [port EXCEPT ![s] = p]
    /\ \E d \in now..SitEnd : tend' = [tend EXCEPT ![s] = d]
    /\ SitStep(s, "run")
    /\ UNCHANGED faults

\* A pass of the loop of run() takes a role and prints
\* len(active_players()) while the read of the role fails: active_players()
\* returns None, len(None) raises TypeError, and neither run() nor
\* babysit() catches it: the sitter's thread ends.
RunRaises(s) ==
    /\ mpc[s] = "run"
    /\ RunLoopCond(s)
    /\ CanFail
    /\ Fault(TRUE)
    /\ SitStep(s, "crashed:players")
    /\ UNCHANGED <<tend, port>>

\* The loop test of babysit() fails: babysit() returns and the thread ends.
SitterEnds(s) ==
    /\ mpc[s] \in {"babysit", "stopped"}
    /\ ~SitLoopCond
    /\ SitStep(s, "done")
    /\ UNCHANGED <<tend, port, faults>>

\* A second ends while some sitter's thread is alive.
SitTick ==
    /\ \E s \in roles : mpc[s] \in {"babysit", "run", "stopped"}
    /\ now < MgrMaxTime
    /\ Tick
    /\ UNCHANGED <<mwvars, mcvars>>

NextSit ==
    \/ SitTick
    \/ \E s \in roles : SitterCreates(s)
    \/ \E s \in roles : RunRaises(s)
    \/ \E s \in roles : RunEnds(s)
    \/ \E s \in roles : SitterEnds(s)

\* Two sitters, started by __main__ at time 0.
InitSit == InitWith(Handles) /\ MWInit("babysit", {}, 0, 0)
SpecSit == InitSit /\ [][NextSit]_allvars

\* ================================================================ claims
\* release() has completed on h and the caller has started no call since.
Released(h) == call[h] \in {"release:True", "release:None", "release:raised"}

\* Thread t of h executes the try body of the inner loop (the take_role call
\* statement): it ends in the handler or with retry_remaining = 0.
RenewAttemptStep(h, t) ==
    /\ tpc[h][t] = "inner"
    /\ \/ tpc'[h][t] = "retrysleep"
       \/ tpc'[h][t] = "inner" /\ retry[h][t] > 0 /\ retry'[h][t] = 0

\* C1: mutual exclusion of a role: at most max_players handles with distinct
\* names report is_holding() = true at the same instant (the store never has
\* more than max_players unexpired holders and never returns a client
\* expiration later than its own).
C1_MutualExclusion == Cardinality({h \in roles : IsHolding(h)}) <= MaxPlayers

\* C2: no resurrection: once release() has completed on a handle and take() is
\* not called again, no renewal thread of the handle executes the take_role
\* call statement, and the handle's slot at the store is not written.
C2_NoResurrection ==
    [][\A h \in Handles :
         /\ Released(h) => \A t \in Threads : ~RenewAttemptStep(h, t)
         /\ (Released(h) /\ Released(h)') => storeExp'[h] = storeExp[h]]_vars

\* C2's case: release() completed while a renewal thread was waiting for the
\* lock, and that thread now holds the lock at the inner loop's test.
C2_Witness == \E h \in roles, t \in Threads : Released(h) /\ tpc[h][t] = "inner"

\* C3: after release() returned on a handle, is_holding() is false until a
\* later successful take().
C3_ReleasedNotHolding == \A h \in roles : call[h] = "release:True" => ~IsHolding(h)

\* C4: at most one renewal thread of a handle is alive after any sequence of
\* take() and release() calls, and exactly one after a successful take().
C4_OneRenewalThread ==
    \A h \in roles :
       /\ Cardinality(AliveThreads(h)) <= 1
       /\ call[h] = "take:True" => Cardinality(AliveThreads(h)) = 1

\* C5: release() returns (True, or False when the store's release call failed)
\* and never raises; the maintain flag is cleared either way.
C5_ReleaseNeverRaises ==
    \A h \in roles :
       /\ call[h] # "release:raised"
       /\ Released(h) => ~maintain[h]

\* C6: take() returns False without raising on every failure of the store's
\* acquire call, and True only when the store granted the slot.
C6_TakeNeverRaises == \A h \in roles : call[h] # "take:raised"

\* A take() that ends in failure, and a renewal attempt that ends in the handler.
TakeFailedStep(h) == call[h] = "take" /\ call'[h] \in {"take:False", "take:raised"}
RenewFailedStep(h, t) == tpc[h][t] = "inner" /\ tpc'[h][t] = "retrysleep"

\* The step leaves h's expiration, maintain flag and renewal threads alone.
HandleFrame(h) ==
    /\ exp'[h] = exp[h]
    /\ maintain'[h] = maintain[h]
    /\ mthread'[h] = mthread[h]
    /\ AliveThreads(h)' = AliveThreads(h)

\* C7: a failed take() or a failed renewal attempt leaves the recorded
\* expiration, the maintain flag and the renewal thread unchanged, and a
\* handle goes from holding to not holding only by time passing its recorded
\* expiration.
C7_FailureKeepsLease ==
    [][\A h \in Handles :
         /\ (TakeFailedStep(h) \/ \E t \in Threads : RenewFailedStep(h, t)) => HandleFrame(h)
         /\ (IsHolding(h) /\ ~IsHolding(h)') =>
               (now' > now /\ exp'[h] = exp[h] /\ now' * 1000 >= exp[h])]_vars

\* C7's case: a handle that holds the role after a take() that failed and
\* during a renewal attempt that failed.
C7_Witness ==
    \E h \in roles, t \in Threads :
       call[h] = "take:False" /\ tpc[h][t] = "retrysleep" /\ IsHolding(h)

\* C8: is_holding(s) at time t answers true exactly when t + s is strictly
\* before the recorded expiration; a handle that never acquired (expiration
\* 0) is never holding.
C8_IsHoldingExact ==
    obs.h # "none" =>
       /\ obs.e = exp[obs.h]
       /\ obs.r <=> (obs.x2 < 2 * obs.e)
       /\ obs.e = 0 => ~obs.r

\* C8's case: is_holding() answered true half a millisecond before the
\* recorded expiration.
C8_Witness == obs.h # "none" /\ obs.r /\ obs.x2 = 2 * obs.e - 1

\* C9: the recorded expiration of a handle never decreases.
C9_ExpirationMonotone == [][\A h \in Handles : exp'[h] >= exp[h]]_vars

\* C9's case: a take() at a time after 0 succeeded and its response has been
\* recorded.
C9_Witness ==
    \E h \in roles :
       call[h] = "take:True" /\ exp[h] >= 1000 * (PlayTimeSecs + 1) - MaxSkewMs

\* C10: renewal keeps the lease: a renewal attempt that no failure of the
\* store stops reaches the store and advances the recorded expiration to a
\* playtime from now.
C10_RenewalKeepsLease ==
    [][\A h \in Handles, t \in Threads :
         (RenewAttemptStep(h, t) /\ caught'[h][t] \notin {"RegistryError", "OtherError"})
            => exp'[h] >= 1000 * (now + PlayTimeSecs) - MaxSkewMs]_vars

\* ============================================= claims: manager and workers
\* _recv_results of machine m takes one datagram from its socket.
DrainStep(m) ==
    /\ mpc[m] = "recv"
    /\ minbox'[m] # minbox[m]
    /\ minbox'[m] \subseteq minbox[m]
    /\ faults' = faults
Drained(m) == SplitComma(CHOOSE msg \in minbox[m] \ minbox'[m] : TRUE)
RangeOf(f) == JoinComma(<<f[1], f[2]>>)

\* C11: within a tenure a completion report changes finished only by adding
\* its count for a range that is pending, and removes the range in the same
\* step; a range that has been counted is not pending again, so a later
\* report for it, from any worker, changes neither finished nor pending.
C11_IdempotentCompletion ==
    [][\A m \in roles :
         /\ DrainStep(m) =>
              /\ RangeOf(Drained(m)) \in counted[m] =>
                    /\ prob'[m].finished = prob[m].finished
                    /\ prob'[m].pending = prob[m].pending
              /\ prob'[m].finished # prob[m].finished =>
                    /\ prob'[m].finished = prob[m].finished + IntOf(Drained(m)[3])
                    /\ RangeOf(Drained(m)) \in PendingKeys(prob[m])
              /\ prob'[m].pending # prob[m].pending =>
                    /\ prob'[m].pending = DelPending(prob[m].pending, RangeOf(Drained(m)))
                    /\ prob'[m].finished # prob[m].finished
         /\ (mpc[m] \in BodyPcs /\ mpc'[m] \in BodyPcs \cup TestPcs /\ ~DrainStep(m)) =>
              prob'[m].finished = prob[m].finished
         /\ counted'[m] \cap PendingKeys(prob'[m]) = {}
    ]_allvars

\* A report for a range already counted waits in the socket of a manager that
\* is draining, from a worker the manager holds busy.
C11_Witness ==
    \E m \in roles : \E msg \in minbox[m] :
        /\ mpc[m] = "recv"
        /\ RangeOf(SplitComma(msg)) \in counted[m]
        /\ SplitComma(msg)[4] \in DOMAIN prob[m].busy

AssignStep(m) ==
    /\ mpc[m] = "assign"
    /\ mpc'[m] = "assign"
    /\ iterSent'[m] # iterSent[m]
SentKey(m) == (CHOOSE x \in iterSent'[m] \ iterSent[m] : TRUE)[2]

\* C13: the range sent to a free worker is the first pending range, in
\* insertion order, whose timestamp is older than the wait threshold, and
\* next stays; when no pending range is that old it is [next, next + chunk),
\* and next advances by the chunk.
C13_AssignmentChoice ==
    [][\A m \in roles : AssignStep(m) =>
         LET p == prob[m]
             old == {i \in 1..Len(p.pending) : now - p.pending[i].ts > ResultWaitTimeSecs}
         IN IF old # {}
              THEN /\ \E i \in old :
                        /\ p.pending[i].key = SentKey(m)
                        /\ \A j \in old : i <= j
                   /\ prob'[m].next = p.next
              ELSE /\ SentKey(m) = JoinComma(<<Str(p.next), Str(p.next + AssignmentSize)>>)
                   /\ prob'[m].next = p.next + AssignmentSize
    ]_allvars

\* A range another worker is still busy with has been sent again.
C13_Witness ==
    \E m \in roles : \E x \in iterSent[m] : \E w \in DOMAIN prob[m].busy :
        w # x[1] /\ prob[m].busy[w] = x[2]

\* C14: the record a successful load() leaves in a fresh ProblemState is the
\* record the last successful save() wrote: the same next, pending (items in
\* the same order), busy_workers and finished.
C14_RoundTrip == \A m \in roles : mpc[m] = "loaded" => prob[m] = saved

\* A record with two pending ranges and a busy worker has been loaded.
C14_Witness ==
    \E m \in roles :
        /\ mpc[m] = "loaded"
        /\ Len(prob[m].pending) >= 2
        /\ DOMAIN prob[m].busy # {}

\* C15: a successful save never replaces the persisted record by one with a
\* smaller next or a smaller finished.
C15_NeverRegresses ==
    [][(persisted # NoBlob /\ persisted' # persisted) =>
         /\ JsonMember(persisted', "next") >= JsonMember(persisted, "next")
         /\ JsonMember(persisted', "finished") >= JsonMember(persisted, "finished")
    ]_allvars

\* C16: load() never raises: no machine leaves do_work from inside load().
C16_LoadNeverRaises == \A m \in roles : mpc[m] # "crashed:load"

\* C17: when a machine that holds the manager role, after another machine
\* stopped and its lease elapsed at the store, runs load(), its tenure starts
\* from the persisted record.
C17_ResumesFromPersisted ==
    [][\A m \in roles :
         (/\ mpc[m] = "load"
          /\ mpc'[m] \in {"loaded", "loadfailed"}
          /\ persisted # NoBlob
          /\ storeExp[m] > now
          /\ \E g \in roles \ {m} : mpc[g] = "stopped" /\ storeExp[g] <= now)
         => prob'[m] = LoadedProblem(persisted)
    ]_allvars

\* Machine m is executing the body of a manager iteration.
InBody(m) == mpc[m] \in BodyPcs

\* C18 as stated: at most one machine is executing the body of a manager
\* iteration.
C18_SingleWriter == Cardinality({m \in roles : InBody(m)}) <= 1

\* C18 amended: of two machines executing the body of a manager iteration, at
\* least one passed its loop test at an earlier clock reading, that is, has
\* been in its iteration for longer than the lookahead of the test.
C18_SingleWriterWithinLookahead ==
    \A m \in roles : \A g \in roles \ {m} :
        (InBody(m) /\ InBody(g)) => (iterStart[m] < now \/ iterStart[g] < now)

\* Two machines are executing the body of a manager iteration.
C18_Witness == \E m \in roles : \E g \in roles \ {m} : InBody(m) /\ InBody(g)

\* C19: a pass of the worker that read no manager holder, or two or more,
\* sent no report, did not count the result as solved, and left the worker
\* in its loop.
C19_AnomalyDropsResult ==
    (wobs.w # <<>> /\ Cardinality(wobs.players) # 1) =>
        /\ wobs.send = {}
        /\ wobs.solved = 0
        /\ wpc[wobs.w] = "loop"

\* A worker's pass read two manager holders.
C19_Witness == wobs.w # <<>> /\ Cardinality(wobs.players) = 2

\* The record of the machine, and the first N ranges, N the number of workers.
TheRecord == prob["h1"]
FirstN == Cardinality(staff) * AssignmentSize
LowerOf(k) == IntOf(SplitComma(k)[1])
FirstDone == TheRecord.next >= FirstN /\ \A k \in PendingKeys(TheRecord) : LowerOf(k) >= FirstN

\* C20 as stated: in a run without faults, when the last of the first N
\* ranges has been reported and drained the record has finished = N*c, no
\* pending range and next = N*c.
C20_LosslessRun ==
    [][(~FirstDone /\ FirstDone') =>
         /\ TheRecord'.finished = FirstN
         /\ TheRecord'.pending = <<>>
         /\ TheRecord'.next = FirstN
    ]_allvars

\* C20 amended: in a run without faults the ranges carved are the chunks
\* [0,c), [c,2c), ... below next, finished plus c for each pending range is
\* next, and once the first N ranges have been reported and drained finished
\* is at least N*c; it is N*c, with nothing pending, exactly as long as the
\* manager has carved no range beyond the first N.
C20_LosslessRunKeepsCarving ==
    /\ \A k \in PendingKeys(TheRecord) :
          /\ LowerOf(k) % AssignmentSize = 0
          /\ k = JoinComma(<<Str(LowerOf(k)), Str(LowerOf(k) + AssignmentSize)>>)
          /\ LowerOf(k) + AssignmentSize <= TheRecord.next
    /\ TheRecord.finished + AssignmentSize * Len(TheRecord.pending) = TheRecord.next
    /\ FirstDone =>
          /\ TheRecord.finished >= FirstN
          /\ (TheRecord.next = FirstN <=>
                (TheRecord.finished = FirstN /\ TheRecord.pending = <<>>))

\* The first N ranges have been reported and drained before any further range
\* was carved.
C20_Witness ==
    /\ FirstDone
    /\ TheRecord.next = FirstN
    /\ TheRecord.finished = FirstN
    /\ TheRecord.pending = <<>>

\* ================================== claims: failures, tracking and progress
\* C23: a read of a role's holders that returns None ends neither
\* Manager.do_work nor Worker.do_work with an exception.
C23_ReadFailureNonFatal ==
    /\ \A m \in roles : mpc[m] # "crashed:workers"
    /\ \A w \in staff : wpc[w] # "crashed"

\* C24: a drained report whose range is pending adds its count to finished
\* and removes the range, whether or not its worker is in busy_workers, and
\* the draining of the iteration goes on after it.
C24_DrainIgnoresBusy ==
    [][\A m \in roles : DrainStep(m) =>
         /\ RangeOf(Drained(m)) \in PendingKeys(prob[m]) =>
               /\ prob'[m].finished = prob[m].finished + IntOf(Drained(m)[3])
               /\ RangeOf(Drained(m)) \notin PendingKeys(prob'[m])
         /\ mpc'[m] = "recv"
    ]_allvars

\* The ranges of a record's pending map, as pairs of numbers, in the order
\* of the map.
PendingRanges(p) ==
    [i \in 1..Len(p.pending) |->
       LET r == SplitComma(p.pending[i].key) IN <<IntOf(r[1]), IntOf(r[2])>>]

RECURSIVE TotalLength(_)
TotalLength(ranges) ==
    IF ranges = <<>> THEN 0
    ELSE Head(ranges)[2] - Head(ranges)[1] + TotalLength(Tail(ranges))

Conserved(p) ==
    LET R == PendingRanges(p) IN
    /\ p.finished + TotalLength(R) = p.next
    /\ \A i \in DOMAIN R :
         /\ R[i][1] % AssignmentSize = 0
         /\ R[i][2] = R[i][1] + AssignmentSize
         /\ 0 <= R[i][1] /\ R[i][2] <= p.next
    /\ \A i, j \in DOMAIN R : i # j => (R[i][2] <= R[j][1] \/ R[j][2] <= R[i][1])

\* C26: at every iteration boundary and in every persisted snapshot (a
\* snapshot is written by the save() that ends an iteration), finished plus
\* the total length of the pending ranges equals next, the pending ranges
\* are pairwise disjoint chunk-aligned sub-ranges of [0, next), and every
\* report of a worker carries count = higher - lower.
C26_Conservation ==
    /\ \A m \in roles : mpc[m] \in TestPcs =>
         /\ Conserved(prob[m])
         /\ persisted # NoBlob => Conserved(LoadedProblem(persisted))
    /\ \A m \in Handles : \A msg \in minbox[m] :
         LET f == SplitComma(msg) IN IntOf(f[3]) = IntOf(f[2]) - IntOf(f[1])

C26_Witness ==
    /\ mpc["h1"] = "test"
    /\ prob["h1"].finished > 0
    /\ prob["h1"].pending # <<>>
    /\ persisted = DurableJson(prob["h1"])
    /\ minbox["h1"] # {}

\* C27: a newly carved range starts at next and moves next up by one chunk,
\* so the assert of _send_assignment fails in no reachable state, the records
\* loaded at the start of a tenure included.
C27_NoNumberSkipped ==
    \A m \in roles :
      /\ mpc[m] # "crashed:assert"
      /\ (mpc[m] = "assign" /\ todo[m] # {}) =>
           LET a == GetAssignment(prob[m], now) IN
           a[2] > prob[m].next =>
             /\ a[1] = prob[m].next
             /\ \A w \in todo[m] :
                  SendAssignment(prob[m], a, w, now).next = prob[m].next + AssignmentSize

C27_Witness ==
    /\ mpc["h1"] = "assign"
    /\ todo["h1"] # {}
    /\ iterSent["h1"] = {}
    /\ persisted # NoBlob
    /\ prob["h1"] = LoadedProblem(persisted)
    /\ prob["h1"].next > 0
    /\ GetAssignment(prob["h1"], now) = <<prob["h1"].next, prob["h1"].next + AssignmentSize>>
    /\ prob["h1"].next + AssignmentSize <= quota * AssignmentSize

\* C28: while the for loop of an iteration runs, the workers still to be
\* served are active workers that are not keys of busy_workers, no worker has
\* been sent two assignments in the iteration, and each worker served is busy
\* with exactly the range it was sent.
C28_OneAssignmentPerWorker ==
    \A m \in roles : mpc[m] = "assign" =>
      /\ todo[m] \subseteq staff
      /\ todo[m] \cap DOMAIN prob[m].busy = {}
      /\ \A x, y \in iterSent[m] : x[1] = y[1] => x = y
      /\ \A x \in iterSent[m] :
           /\ x[1] \notin todo[m]
           /\ x[1] \in DOMAIN prob[m].busy
           /\ prob[m].busy[x[1]] = x[2]

C28_Witness ==
    /\ mpc["h1"] = "assign"
    /\ todo["h1"] # {}
    /\ iterSent["h1"] # {}
    /\ \E x \in iterSent["h1"] : prob["h1"].busy[x[1]] = x[2]

InitTrack == InitWith({"h1"}) /\ MWInit("run", Workers, TrackChunks, 0)
SpecTrack == InitTrack /\ [][NextMW]_allvars

\* Machine m has just ended an iteration and the store holds its record:
\* the state after a successful save.
AfterSave(m) ==
    /\ mpc[m] = "test"
    /\ persisted = DurableJson(prob[m])

\* Ranges known to have been sent by a manager: those waiting in a worker's
\* socket and those a worker has reported.
SentRanges ==
    UNION {winbox[w] : w \in staff}
    \cup {RangeOf(SplitComma(msg)) : msg \in UNION {minbox[g] : g \in Handles}}

\* The range is a key of the record's pending map, or it lies below next
\* without being pending, which is where a counted range is (C26).
Tracked(range, p) ==
    \/ range \in PendingKeys(p)
    \/ IntOf(SplitComma(range)[2]) <= p.next

\* C25: after every successful save, each range that a manager has sent to a
\* worker is a key of the persisted pending map or is counted in the
\* persisted finished total.
C25_TrackingIntegrity ==
    \A m \in roles : AfterSave(m) =>
      \A range \in SentRanges : Tracked(range, prob[m])

\* Machine m is the only one inside do_work and has a range pending, the
\* store holds its record, every worker is a key of busy_workers, and no
\* datagram is in any socket or on its way: no report will come, so no
\* busy_workers entry is deleted and no worker is free, in this tenure and in
\* any tenure that loads the stored record.
Wedged(m) ==
    /\ mpc[m] \in TestPcs \cup BodyPcs
    /\ \A g \in roles \ {m} : mpc[g] \notin TestPcs \cup BodyPcs \cup {"load"}
    /\ prob[m].pending # <<>>
    /\ persisted = DurableJson(prob[m])
    /\ staff \subseteq DOMAIN prob[m].busy
    /\ \A w \in staff : winbox[w] = {} /\ wpc[w] = "loop"
    /\ \A g \in Handles : minbox[g] = {}

\* C29: while a machine holds the manager lease and a live worker holds a
\* worker lease, every pending range is eventually completed, whatever finite
\* number of datagrams is lost; so the manager is never left with a pending
\* range that no worker will be given.
C29_ProgressUnderLoss == \A m \in roles : ~Wedged(m)

\* Inside do_work a worker leaves busy_workers only in the step that drains
\* a report carrying its identity: neither a reassignment of its range nor
\* the passing of time removes the entry.
BusyWithinTenure ==
    [][\A m \in roles : \A w \in DOMAIN prob[m].busy :
         (mpc[m] \in BodyPcs \cup TestPcs /\ mpc'[m] \in BodyPcs \cup TestPcs
          /\ w \notin DOMAIN prob'[m].busy)
         => DrainStep(m) /\ Drained(m)[4] = w
    ]_allvars

\* C30: a busy_workers entry is removed only when a report of its worker is
\* drained, and a change of manager tenure does not remove it: when a new
\* tenure has read the record it works on, every worker the store records as
\* busy is busy in that record, so it is offered no assignment.
C30_BusyUntilReport ==
    \A m \in roles : (mpc[m] \in {"loaded", "loadfailed"} /\ persisted # NoBlob) =>
      DOMAIN LoadedProblem(persisted).busy \subseteq DOMAIN prob[m].busy

\* ============================================================ claims: Machine
\* C22: a pass of Machine.run attempts the manager role first, attempts the
\* worker role only after the manager take() returned False, idles (one
\* sleep) only after both returned False, and runs the Manager or the Worker
\* component only after the take() of that role returned True in the pass.
C22_RolePriority ==
    \A m \in roles :
      /\ Len(trail[m]) <= 2
      /\ trail[m] # <<>> => trail[m][1][1] = "manager"
      /\ Len(trail[m]) = 2 =>
           trail[m][1] = <<"manager", "take:False">> /\ trail[m][2][1] = "worker"
      /\ mpc[m] = "elif" => trail[m] = << <<"manager", "take:False">> >>
      /\ mpc[m] = "manager" => trail[m] = << <<"manager", "take:True">> >>
      /\ mpc[m] = "worker" =>
           trail[m] = << <<"manager", "take:False">>, <<"worker", "take:True">> >>
      /\ mpc[m] = "idle" =>
           trail[m] = << <<"manager", "take:False">>, <<"worker", "take:False">> >>
      /\ nap[m] # 0 <=> mpc[m] = "idle"

C22_Witness ==
    /\ mpc["h1"] = "manager"
    /\ mpc["h2"] = "idle"
    /\ nap["h2"] = now + 1

\* ================================ claims: reports, saves and the two roles
\* The record after _recv_results has handled one datagram: a message that
\* does not unpack, or whose worker fails the assert, changes nothing.
AfterReport(p, msg) ==
    LET f == SplitComma(msg) IN
    IF Len(f) # 4 \/ f[4] \notin DOMAIN p.busy THEN p ELSE RecvResult(p, f)

\* C31: for the reports waiting in a manager's socket, the finished and
\* pending values reached once they are drained do not depend on the order
\* in which they arrive.
C31_OrderIndependence ==
    \A m \in roles : mpc[m] = "recv" =>
        \A a, b \in minbox[m] :
            LET ab == AfterReport(AfterReport(prob[m], a), b)
                ba == AfterReport(AfterReport(prob[m], b), a)
            IN /\ ab.finished = ba.finished
               /\ ab.pending = ba.pending

\* The save() that ends an iteration of machine m returns or raises.
SaveStep(m) == mpc[m] = "assign" /\ todo[m] = {} /\ mpc'[m] # "assign"

\* C32: save() raises nothing: whether it failed or not the manager is back
\* at its loop test with the record in memory unchanged, and a save that
\* succeeds persists the whole current record.
C32_FailedSaveHarmless ==
    [][\A m \in roles : SaveStep(m) =>
         /\ mpc'[m] = "test"
         /\ prob'[m] = prob[m]
         /\ persisted' \in {persisted, DurableJson(prob[m])}
    ]_allvars

\* Worker w consumes an assignment; its read of the manager role was
\* exactly what the store holds when the step is no fault.
ConsumeStep(w) == wpc[w] = "loop" /\ \E msg \in winbox[w] : msg \notin winbox'[w]
Consumed(w) == CHOOSE msg \in winbox[w] : msg \notin winbox'[w]
ReportOf(w, msg) ==
    LET pair == SplitComma(msg) IN
    JoinComma(<<pair[1], pair[2], Str(IntOf(pair[2]) - IntOf(pair[1])), w>>)
NewReports == {x \in Handles \X UNION {minbox'[g] : g \in Handles} :
                 x[2] \in minbox'[x[1]] \ minbox[x[1]]}

\* C38: a worker that received (lower, higher) and observed exactly one
\* manager holder sends the report (lower, higher, higher - lower, own name)
\* to that holder, and no pass sends more than one report.
C38_WorkerReport ==
    [][\A w \in staff : ConsumeStep(w) =>
         /\ (faults' = faults /\ Cardinality(StoreActive) = 1) =>
               \A g \in StoreActive :
                   minbox' = [minbox EXCEPT ![g] = @ \cup {ReportOf(w, Consumed(w))}]
         /\ \A x \in NewReports : x[2] = ReportOf(w, Consumed(w))
         /\ Cardinality(NewReports) <= 1
    ]_allvars

\* The report of worker 1 waits in the socket of the one manager holder.
C38_Witness ==
    \E g \in roles :
        /\ StoreActive = {g}
        /\ \E msg \in minbox[g] :
             LET f == SplitComma(msg) IN
             f[4] = Str(1) /\ IntOf(f[3]) = IntOf(f[2]) - IntOf(f[1])

\* ======================================= claims: the renewal task's cycles
\* The handler of a failed renewal attempt of thread t ends (its one-second
\* sleep is over).
RetrySleepEnds(h, t) == tpc[h][t] = "retrysleep" /\ tpc'[h][t] = "inner"

\* C34: in a renewal cycle a failed attempt is followed, one second later,
\* by a further attempt (while the flag is set), before the task gives up
\* for the cycle.
C34_RetryAfterFailure ==
    [][\A h \in roles, t \in Threads :
         (RetrySleepEnds(h, t) /\ maintain'[h]) => retry'[h][t] > 0
    ]_allvars

\* The thread whose step writes: the caller of take()/release() when the
\* call's position changes, else the renewal thread that moves.
WriterHoldsLock(h) ==
    IF call'[h] # call[h]
      THEN lock[h] = MainOwner
      ELSE \E t \in Threads :
             /\ lock[h] = t
             /\ <<tpc'[h][t], retry'[h][t]>> # <<tpc[h][t], retry[h][t]>>

\* C35: every write to a handle's expiration and maintain flag is made by
\* the holder of the handle's lock, and the renewal task tests the flag and
\* calls the store within one hold of the lock.
C35_LockDiscipline ==
    [][\A h \in roles :
         /\ (exp'[h] # exp[h] \/ maintain'[h] # maintain[h]) => WriterHoldsLock(h)
         /\ \A t \in Threads :
              /\ tpc[h][t] \in {"inner", "retrysleep"} => lock[h] = t
              /\ RenewAttemptStep(h, t) => (lock[h] = t /\ maintain[h])
    ]_allvars

\* A renewal thread is in the handler of a failed attempt, holding the lock,
\* after take() wrote the expiration and the flag.
C35_Witness ==
    \E t \in Threads :
        tpc["h1"][t] = "retrysleep" /\ lock["h1"] = t /\ maintain["h1"] /\ exp["h1"] > 0

\* Renewal thread t of h moves while release() has completed and the caller
\* has made no call since.
MovesReleased(h, t) == Released(h) /\ Released(h)' /\ tpc'[h][t] # tpc[h][t]

\* C36: after release() with no later take(), the renewal task leaves its
\* loop when it wakes, and makes no further store call and starts no further
\* sleep.
C36_TerminatesAtNextWake ==
    [][\A h \in roles, t \in Threads : MovesReleased(h, t) =>
         /\ tpc[h][t] = "sleep" => tpc'[h][t] = "done"
         /\ ~RenewAttemptStep(h, t)
         /\ tpc'[h][t] \notin {"sleep", "retrysleep"}
    ]_allvars

\* What is left of a renewal thread's last cycle, by position.
CycleRest(pc) ==
    CASE pc = "wantlock" -> 3
      [] pc = "inner" -> 2
      [] pc = "sleep" -> 1
      [] pc \in {"done", "none"} -> 0
      [] OTHER -> 4

\* C36, amended: after release() with no later take() the renewal task makes
\* no store call and leaves its loop when it wakes from its cycle sleep; a
\* task that had passed the outer loop's test before the flag was cleared
\* first takes the lock, skips the inner loop and sleeps retake_interval once
\* more.
C36_TerminatesAfterCycle ==
    [][\A h \in roles, t \in Threads : MovesReleased(h, t) =>
         /\ CycleRest(tpc'[h][t]) < CycleRest(tpc[h][t])
         /\ ~RenewAttemptStep(h, t)
         /\ tpc[h][t] = "sleep" => tpc'[h][t] = "done"
    ]_allvars

\* After release() a renewal thread has ended while another, which had
\* passed the outer test, is in its extra sleep or about to be.
C36_Witness ==
    /\ Released("h1")
    /\ \E t \in Threads : tpc["h1"][t] = "done"

\* The steps the holder of h's lock still takes before it frees the lock.
HoldRest(h) ==
    CASE lock[h] = 0 -> 0
      [] lock[h] = MainOwner -> 1
      [] OTHER -> LET t == lock[h] IN
                  IF tpc[h][t] = "retrysleep" THEN 2 * retry[h][t]
                                              ELSE 2 * retry[h][t] + 1

\* The holder of h's lock can take its next step: a caller's store call
\* returns, a renewal thread is in its inner loop or its one-second sleep
\* is over.
HolderCanStep(h) ==
    CASE lock[h] = 0 -> TRUE
      [] lock[h] = MainOwner -> ENABLED (TakeReturn(h) \/ ReleaseReturn(h))
      [] OTHER -> LET t == lock[h] IN
                  (tpc[h][t] = "retrysleep" /\ now < wake[h][t])
                  \/ ENABLED (MaintainAttempt(h, t) \/ MaintainUnlock(h, t)
                              \/ MaintainRetryWake(h, t))

\* The holder of h's lock takes a step.
HolderMoves(h) ==
    CASE lock[h] = 0 -> FALSE
      [] lock[h] = MainOwner -> call'[h] # call[h]
      [] OTHER -> LET t == lock[h] IN
                  <<tpc'[h][t], retry'[h][t]>> # <<tpc[h][t], retry[h][t]>>

\* C37: no call waits for the renewal task to end, only for the lock, and
\* the lock is always freed: its holder is a caller inside take() or
\* release() or a renewal thread inside its `with` block, the holder can
\* always go on (sleeping at most one second per failed attempt), and every
\* step of a holder brings the end of its hold nearer.
C37_NoDeadlock ==
    [][\A h \in roles :
         /\ lock[h] = MainOwner => Calling(h)
         /\ \A t \in Threads : lock[h] = t =>
              /\ tpc[h][t] \in {"inner", "retrysleep"}
              /\ retry[h][t] \in 0..NumRetries
              /\ tpc[h][t] = "retrysleep" => (retry[h][t] > 0 /\ wake[h][t] <= now + 1)
         /\ HolderCanStep(h)
         /\ (lock'[h] = lock[h] /\ HolderMoves(h)) => HoldRest(h)' < HoldRest(h)
    ]_allvars

\* A caller is inside take() or release() right after a renewal thread gave
\* the lock back, with a second renewal thread waiting for it.
C37_Witness ==
    /\ lock["h1"] = MainOwner
    /\ \E t \in Threads : tpc["h1"][t] = "wantlock"
    /\ \E t \in Threads : tpc["h1"][t] = "sleep" /\ caught["h1"][t] = "none" /\ wake["h1"][t] > 1

\* ===================================== claims: the machine and its sitter
\* The names the store reports for the worker role with playtime left.
WorkerHolders == {g \in Handles : wlease[g].store > now}

\* C33: while a machine runs manager iterations its name is not an active
\* holder of the worker role, so the free workers its iteration computes do
\* not contain the machine itself.
C33_OneRoleAtATime ==
    \A m \in roles : mpc[m] = "miter" =>
        /\ m \notin WorkerHolders
        /\ m \notin FreeWorkers(WorkerHolders, prob[m].busy)

\* At least the safety margin of half a second remains before m's t_end.
MarginLeft(m) == (tend[m] - now) * 2000 - frac >= 1000

\* The handle whose expiration is e answers is_holding(0.5) with True.
HoldsAhead(e) == (now * 2000 + frac + 1000) \div 2 < e

\* The expiration of the handle of the component m runs.
RoleExpiration(m) == IF mpc[m] \in {"manager", "miter"} THEN exp[m] ELSE wlease[m].exp

\* What is left of Machine.run once t_end has passed, by position.
RunRest(pc) ==
    CASE pc = "elif" -> 3
      [] pc \in {"manager", "miter", "worker", "witer", "idle"} -> 2
      [] pc = "run" -> 1
      [] OTHER -> 0

\* Machine m can take its next step.
MachineCanStep(m) ==
    CASE mpc[m] \in {"manager", "miter"} -> ENABLED (ManagerIterates(m) \/ ManagerReturns(m))
      [] mpc[m] \in {"worker", "witer"} -> ENABLED (WorkerIterates(m) \/ WorkerReturns(m))
      [] mpc[m] = "elif" -> ENABLED MachineWorkerTake(m)
      [] mpc[m] = "run" -> ENABLED (MachinePass(m) \/ RunEnds(m))
      [] mpc[m] = "idle" -> nap[m] <= now + 1
      [] OTHER -> TRUE

\* C39: an iteration of Manager.do_work or Worker.do_work can start only
\* while the safety margin remains before t_end and is_holding(0.5) is true;
\* when either fails do_work returns, releasing no role; and after t_end
\* every step of the machine brings the end of Machine.run nearer.
C39_CooperativeExit ==
    [][\A m \in roles :
         /\ mpc[m] \in {"manager", "miter", "worker", "witer"} =>
              /\ ENABLED (ManagerIterates(m) \/ WorkerIterates(m))
                   => (MarginLeft(m) /\ HoldsAhead(RoleExpiration(m)))
              /\ ~(MarginLeft(m) /\ HoldsAhead(RoleExpiration(m)))
                   => ENABLED (ManagerReturns(m) \/ WorkerReturns(m))
              /\ mpc'[m] = "run" =>
                   /\ <<storeExp'[m], exp'[m], maintain'[m]>> = <<storeExp[m], exp[m], maintain[m]>>
                   /\ wlease'[m] = wlease[m]
         /\ MachineCanStep(m)
         /\ (now >= tend[m] /\ mpc'[m] # mpc[m]) => RunRest(mpc'[m]) < RunRest(mpc[m])
    ]_allvars

\* A machine has stopped after its t_end, having been manager, with its
\* manager lease still at the store.
C39_Witness ==
    \E m \in roles :
        /\ mpc[m] = "stopped"
        /\ now >= tend[m]
        /\ exp[m] > 0
        /\ storeExp[m] > now

\* The machines that run.
MachinesRunning == {s \in roles : mpc[s] = "run"}

\* Sitter s starts a machine in this step.
StartsMachine(s) == mpc'[s] = "run" /\ mpc[s] # "run"

\* C40: with P sitters at most P machines run at any instant; a sitter whose
\* machine has stopped before the sitters' deadline can start a replacement,
\* which is named differently from every machine that still exists; and no
\* machine is started once the deadline has passed.
C40_SupervisorPool ==
    [][/\ Cardinality(MachinesRunning) <= Cardinality(roles)
       /\ \A s \in roles :
            /\ (mpc[s] # "run" /\ SitLoopCond) => ENABLED SitterCreates(s)
            /\ StartsMachine(s) =>
                 /\ SitLoopCond
                 /\ port'[s] \notin BoundPorts
    ]_allvars

====
